---- MODULE Spec2Model ----
(***************************************************************************)
(* Model of server/index.js of verisol-ai-scanner: the POST /analyze       *)
(* handler, the engine adapters it calls and the repository scanner.       *)
(*                                                                         *)
(* Every `await` of an external call (explorer lookup, model inference,    *)
(* subprocess, filesystem, clone, timer) is a position of the handler      *)
(* (pc); the return of the call is an action that draws the call's         *)
(* outcome and runs the handler up to its next await.                      *)
(*                                                                         *)
(* JavaScript strings that the code inspects or builds (model responses,   *)
(* process output, reasons) are sequences of tokens.                       *)
(***************************************************************************)
EXTENDS Integers, Sequences, FiniteSets, TLC

VARIABLES
    req,                \* req[r]: the body of request r ({inputType, input})
    pc,                 \* pc[r]: the await the handler of r is parked at
    response,           \* response[r]: what res.status(..).json(..) sent
    responses,          \* responses[r]: how many times the handler answered
    calls,              \* calls[r][c]: how many times r invoked collaborator c
    sourceCode,         \* index.js:168
    abiResponse,        \* index.js:62 what the explorer answered to getabi
    staticResult,       \* index.js:171 the settled Static task
    dynamicResult,      \* index.js:171 the settled Dynamic task
    genericFuzzResult,  \* index.js:171 the settled Generic Fuzzer task
    testCode,           \* index.js:178
    fuzzerOutput,       \* index.js:179
    aiFuzzing,          \* index.js:176
    err,                \* index.js:186 the pipeline stage whose exception was caught
    testFile,           \* the file test/AIGeneratedFuzzer.t.sol
    tempDir,            \* the directory server/temp_repo
    discovered,         \* index.js:115 files: the paths findSolidityFiles returned
    files,              \* index.js:118 files.length
    idx,                \* index.js:118 the loop variable i
    fileTask,           \* index.js:121 position of each file task of the batch
    fileContent,        \* index.js:123 what fs.readFile gave each file task
    findings,           \* index.js:114
    engines             \* what the honeypot simulation and the generic harness
                        \* can answer for the contract under analysis and
                        \* for the generated test (ai); what the model can
                        \* answer to the test-generation prompt; what a
                        \* clone can hold (repos), what reading its files
                        \* and what auditing them can give

fetchVars == <<sourceCode, abiResponse>>
taskVars == <<staticResult, dynamicResult, genericFuzzResult>>
aiVars == <<testCode, fuzzerOutput, aiFuzzing, err>>
addrVars == <<fetchVars, taskVars, aiVars>>
repoVars == <<discovered, files, idx, fileTask, fileContent, findings>>
fsVars == <<testFile, tempDir>>
vars == <<req, pc, response, responses, calls, addrVars, repoVars, fsVars, engines>>

----------------------------------------------------------------------------
(* Requests and JavaScript values *)

Reqs == {"r1", "r2"}

\* A property that is missing from an object (undefined).
Absent == "<undefined>"

InputTypes == {Absent, "", "address", "github", "text", "nft"}
Inputs == {Absent, "", "0xABC"}
Bodies == [inputType : InputTypes, input : Inputs]
NoBody == [inputType |-> Absent, input |-> Absent]

\* A test for undefined only.
MissingOnly(x) == x = Absent

\* !x for the string-or-undefined fields of the request body.
Falsy(x) == x \in {Absent, ""}

Undefined == [undefined |-> TRUE]
Null == [null |-> TRUE]

\* A one-token string.
T(s) == <<s>>

\* What a call returns: a value, or an exception.
Ok(v) == [ok |-> TRUE, value |-> v]
Throw == [ok |-> FALSE]

----------------------------------------------------------------------------
(* Text helpers *)

Whitespace == {" ", "\n"}

RECURSIVE TrimLeft(_)
TrimLeft(s) ==
    IF s # <<>> /\ Head(s) \in Whitespace THEN TrimLeft(Tail(s)) ELSE s

RECURSIVE TrimRight(_)
TrimRight(s) ==
    IF s # <<>> /\ s[Len(s)] \in Whitespace
    THEN TrimRight(SubSeq(s, 1, Len(s) - 1))
    ELSE s

\* String.prototype.trim
Trim(s) == TrimRight(TrimLeft(s))

\* String.prototype.replace(/tok/g, '')
RemoveAll(s, tok) == SelectSeq(s, LAMBDA t : t # tok)

\* String.prototype.includes, for a marker that is one token.
Includes(s, tok) == \E i \in 1..Len(s) : s[i] = tok

\* The JSON documents the collaborators produce, by token.
JsonTokens == {"{riskScore:High}", "{riskScore:Severe}",
               "{isHoneypot:false,passed}", "{isHoneypot:true}",
               "{isHoneypot:false,nodeposit}"}

JsonValue(tok) ==
    CASE tok = "{riskScore:High}" ->
            [riskScore |-> "High", summary |-> T("Reentrancy in withdraw."),
             findings |-> <<[title |-> "Reentrancy", severity |-> "High"]>>]
      [] tok = "{riskScore:Severe}" ->
            [riskScore |-> "Severe", summary |-> T("Unsafe."), findings |-> <<>>]
      [] tok = "{isHoneypot:false,passed}" ->
            [isHoneypot |-> FALSE, reason |-> T("Deposit/withdraw simulation passed.")]
      [] tok = "{isHoneypot:true}" ->
            [isHoneypot |-> TRUE, reason |-> T("Withdrawal simulation failed.")]
      [] tok = "{isHoneypot:false,nodeposit}" ->
            [isHoneypot |-> FALSE, reason |-> T("Standard deposit() not found.")]

\* JSON.parse: one JSON document, whitespace around it allowed.
JSONparse(s) ==
    LET t == Trim(s)
    IN  IF Len(t) = 1 /\ t[1] \in JsonTokens THEN Ok(JsonValue(t[1])) ELSE Throw

----------------------------------------------------------------------------
(* Outcomes of the external calls *)

\* model.generateContent + response.text(): an error, or the response text.
LlmError == [ok |-> FALSE, text |-> <<>>]
LlmText(s) == [ok |-> TRUE, text |-> s]

StaticOutcomes ==
    { LlmError,
      LlmText(<<"{riskScore:High}">>),
      LlmText(<<"(fence)json", "\n", "{riskScore:Severe}", "\n", "(fence)">>),
      LlmText(<<"Here is the audit:", "\n", "{riskScore:High}">>) }

\* The model's answers to the audit of a repository file: as StaticOutcomes,
\* with one document.
FileAuditOutcomes ==
    { LlmError,
      LlmText(<<"{riskScore:High}">>),
      LlmText(<<"Here is the audit:", "\n", "{riskScore:High}">>) }

GenerateOutcomes ==
    { LlmError,
      LlmText(<<"Here is the test:", "(fence)solidity", "\n", "contract AIGeneratedFuzzer {}",
                "\n", "(fence)">>),
      LlmText(<<"contract AIGeneratedFuzzer {}">>),
      LlmText(<<"(fence)solidity", "\n", "(fence)">>) }

InterpretOutcomes ==
    { LlmError, LlmText(<<"withdraw() can be re-entered.">>) }

\* execPromise: resolves with stdout on exit 0; rejects with an error that
\* carries stdout and stderr; or the spawn itself throws and the error
\* carries neither.
ExecOk(out) == [exit |-> 0, attached |-> TRUE, stdout |-> out, stderr |-> <<>>]
ExecFail(out, errOut) == [exit |-> 1, attached |-> TRUE, stdout |-> out, stderr |-> errOut]
SpawnError == [exit |-> 1, attached |-> FALSE, stdout |-> <<>>, stderr |-> <<>>]

FailLog == <<"[FAIL. Reason: assertion failed]">>

\* forge test
HarnessOutcomes ==
    { ExecOk(<<"[PASS]">>),
      SpawnError,
      ExecFail(<<>>, <<>>),
      ExecFail(<<>>, <<"Error:", "compilation failed">>),
      ExecFail(<<"Compiler error", "\n">>, <<>>),
      ExecFail(FailLog, <<>>),
      ExecFail(FailLog, <<"Error:", "compilation failed">>) }

\* ./honeypot_check.sh
HoneypotOutcomes ==
    { ExecOk(<<"{isHoneypot:false,passed}", "\n">>),
      ExecOk(<<"{isHoneypot:true}", "\n">>),
      ExecOk(<<"{isHoneypot:false,nodeposit}", "\n">>),
      ExecOk(<<>>),
      ExecFail(<<>>, <<"./honeypot_check.sh: Permission denied">>) }

\* axios.get of the explorer's getsourcecode / getabi.
SourceOutcomes == {"error", "empty", "present"}
AbiOutcomes == {"error", "status0", "ok"}
FsOutcomes == {"error", "ok"}

----------------------------------------------------------------------------
(* The adapters, as functions of the outcome of their external call *)

FenceTokens == {"(fence)", "(fence)json", "(fence)solidity"}

\* .replace(/(fence)/g, ''): also eats the fence of a "(fence)solidity".
StripFences(s) ==
    SelectSeq([i \in 1..Len(s) |->
                  IF s[i] = "(fence)solidity" THEN "solidity" ELSE s[i]],
              LAMBDA t : t # "(fence)")

\* index.js:28-34
getStaticAnalysis(o) ==
    IF ~o.ok THEN Throw
    ELSE JSONparse(Trim(StripFences(RemoveAll(o.text, "(fence)json"))))

\* index.js:37-42
getDynamicAnalysis(o) ==
    IF o.exit # 0 THEN Throw ELSE JSONparse(o.stdout)

\* index.js:52, 92: error.stdout || error.stderr
ErrorLog(o) == IF o.stdout # <<>> THEN o.stdout ELSE o.stderr

\* index.js:53, 93
HasCompilerMarker(log) ==
    Includes(log, "Compiler error") \/ Includes(log, "compilation failed")

\* index.js:45-58
getGenericFuzzingAnalysis(o) ==
    IF o.exit = 0
    THEN Ok([status |-> "passed", reason |-> T("All generic invariants passed.")])
    ELSE IF ~o.attached THEN Throw
    ELSE IF HasCompilerMarker(ErrorLog(o))
    THEN Ok([status |-> "incompatible",
             reason |-> T("Generic test suite was not compatible with this contract.")])
    ELSE Ok([status |-> "failed",
             reason |-> T("Generic invariant violated. Details: ") \o ErrorLog(o)])

\* index.js:61-67
getContractAbi(o) ==
    IF o = "ok" THEN Ok(T("[abi]")) ELSE Throw

SetMin(S) == CHOOSE x \in S : \A y \in S : x <= y

\* An extraction that returns the block as it stands.
generateFuzzTestNoTrim(o) ==
    IF ~o.ok THEN Throw
    ELSE LET s == o.text
             opens == {i \in 1..Len(s) : s[i] = "(fence)solidity"}
         IN  IF opens = {} THEN Throw
             ELSE LET i == SetMin(opens)
                      closes == {j \in (i + 1)..Len(s) : s[j] \in FenceTokens}
                  IN  IF closes = {} THEN Throw
                      ELSE LET inner == SubSeq(s, i + 1, SetMin(closes) - 1)
                           IN  IF inner = <<>> THEN Throw ELSE Ok(inner)

\* index.js:70-80
generateFuzzTest(o) ==
    IF ~o.ok THEN Throw
    ELSE LET s == o.text
             opens == {i \in 1..Len(s) : s[i] = "(fence)solidity"}
         IN  IF opens = {} THEN Throw
             ELSE LET i == SetMin(opens)
                      closes == {j \in (i + 1)..Len(s) : s[j] \in FenceTokens}
                  IN  IF closes = {} THEN Throw
                      ELSE LET inner == SubSeq(s, i + 1, SetMin(closes) - 1)
                           IN  IF inner = <<>> THEN Throw ELSE Ok(Trim(inner))

\* index.js:88-97, the part of runAIGeneratedFuzzer after the harness returned
runAIGeneratedFuzzer(o) ==
    IF o.exit = 0 THEN Ok([status |-> "passed", log |-> o.stdout])
    ELSE IF ~o.attached THEN Throw
    ELSE IF HasCompilerMarker(ErrorLog(o))
    THEN Ok([status |-> "incompatible",
             log |-> T("AI-generated test was not compatible or failed to compile.")])
    ELSE Ok([status |-> "failed", log |-> ErrorLog(o)])

\* index.js:101-106
interpretFuzzFailure(o) ==
    IF o.ok THEN Ok(o.text) ELSE Throw

----------------------------------------------------------------------------
(* The orchestrator's pure parts *)

NotStarted == [status |-> "unstarted"]
Pending == [status |-> "pending"]

\* Promise.allSettled's record of one task
Settle(res) ==
    IF res.ok THEN [status |-> "fulfilled", value |-> res.value]
    ELSE [status |-> "rejected"]

Settled(t) == t.status \in {"fulfilled", "rejected"}

\* index.js:191
StaticSlot(t) == IF t.status = "fulfilled" THEN t.value ELSE Null

\* A fallback that leaves the field empty.
DynamicSlotNull(t) == IF t.status = "fulfilled" THEN t.value ELSE Null

\* index.js:192
DynamicSlot(t) ==
    IF t.status = "fulfilled" THEN t.value
    ELSE [isHoneypot |-> FALSE, reason |-> T("Honeypot check failed.")]

\* A fallback with a status of its own.
GenericSlotError(t) ==
    IF t.status = "fulfilled" THEN t.value
    ELSE [status |-> "error", reason |-> T("Generic fuzzing failed.")]

\* index.js:193
GenericSlot(t) ==
    IF t.status = "fulfilled" THEN t.value
    ELSE [status |-> "incompatible", reason |-> T("Generic fuzzing failed.")]

\* index.js:187
AiFallback ==
    [status |-> "incompatible", reason |-> T("AI-driven fuzzing process failed to run.")]

\* A merge in which a failed Static task takes the other engines' results
\* with it.
finalReportAllOrNothing(sr, dr, gr, ai) ==
    [reportType |-> "address",
     staticAnalysis |-> StaticSlot(sr),
     dynamicAnalysis |-> IF sr.status = "fulfilled" THEN DynamicSlot(dr)
                         ELSE DynamicSlot([status |-> "rejected"]),
     genericFuzzing |-> IF sr.status = "fulfilled" THEN GenericSlot(gr)
                        ELSE GenericSlot([status |-> "rejected"]),
     aiFuzzing |-> ai]

\* index.js:189-195
finalReport(sr, dr, gr, ai) ==
    [reportType |-> "address",
     staticAnalysis |-> StaticSlot(sr),
     dynamicAnalysis |-> DynamicSlot(dr),
     genericFuzzing |-> GenericSlot(gr),
     aiFuzzing |-> ai]

\* index.js:209 res.json: JSON.stringify leaves out the keys whose value is
\* undefined.
Json(o) ==
    [k \in {k \in DOMAIN o : k \in {"reportType", "files"} \/ o[k] # Undefined}
        |-> o[k]]

\* index.js:204
textReport(analysis) ==
    [reportType |-> "text",
     files |-> <<[file |-> "PastedCode.sol", analysis |-> analysis]>>]

\* index.js:200
repoReport(entries) == [reportType |-> "repo", files |-> entries]

RequiredError == [error |-> "Input type and value are required."]   \* index.js:161
InvalidTypeError == [error |-> "Invalid input type."]                \* index.js:207
GenericError ==                                                      \* index.js:212
    [error |-> "Failed to complete analysis. Please check your input."]

----------------------------------------------------------------------------
(* Bounds and program constants *)

MaxFiles == 6          \* most source files a cloned repository holds
ManyFiles == 12        \* the same, for a scan while the model is unavailable
FewFiles == 1          \* the same, for two scans at once
MaxLen == 5            \* most tokens of a model response to the generation prompt
BATCH_SIZE == 5        \* index.js:116
MinContentLength == 50 \* index.js:124

Files == 1..ManyFiles

Collaborators ==
    {"source", "abi", "static", "dynamic", "generic", "generate", "write",
     "exec", "interpret", "repo", "remove", "ensureDir", "clone", "find",
     "readFile", "pause"}

NoResponse == [status |-> 0, body |-> [none |-> TRUE]]

----------------------------------------------------------------------------
(* Steps shared by the actions *)

Call(r, cs) ==
    calls' = [calls EXCEPT ![r] =
                 [c \in Collaborators |-> IF c \in cs THEN @[c] + 1 ELSE @[c]]]

\* k invocations of collaborator c
CallN(r, c, k) == calls' = [calls EXCEPT ![r][c] = @ + k]

Goto(r, l) == pc' = [pc EXCEPT ![r] = l]

\* res.status(st).json(body), after which the handler returns
Reply(r, st, body) ==
    /\ response' = [response EXCEPT ![r] = [status |-> st, body |-> body]]
    /\ responses' = [responses EXCEPT ![r] = @ + 1]
    /\ pc' = [pc EXCEPT ![r] = "done"]

\* A catch that logs the error and sends nothing.
TopLevelCatchSilent(r) ==
    /\ response' = response
    /\ responses' = responses
    /\ pc' = [pc EXCEPT ![r] = "caught"]

\* A catch that answers with the message of the error it caught.
TopLevelCatchLeaky(r) == Reply(r, 500, [error |-> "Source code not found."])

\* index.js:210-213: the handler's catch
TopLevelCatch(r) == Reply(r, 500, GenericError)

\* index.js:189-196, 209: compose the address report and send it
SendAddressReport(r, ai) ==
    /\ aiFuzzing' = [aiFuzzing EXCEPT ![r] = ai]
    /\ Reply(r, 200, Json(finalReport(staticResult[r], dynamicResult[r],
                                      genericFuzzResult[r], ai)))

\* A catch that forgets to assign aiFuzzing.
AiCatchUnassigned(r, stage) ==
    /\ err' = [err EXCEPT ![r] = stage]
    /\ SendAddressReport(r, aiFuzzing[r])

\* A catch that rethrows to the handler's catch.
AiCatchRethrow(r, stage) ==
    /\ err' = [err EXCEPT ![r] = stage]
    /\ TopLevelCatch(r)
    /\ UNCHANGED aiFuzzing

\* index.js:186-188: the catch of the AI pipeline (err: the stage that threw),
\* then the report
AiCatch(r, stage) ==
    /\ err' = [err EXCEPT ![r] = stage]
    /\ SendAddressReport(r, AiFallback)

----------------------------------------------------------------------------
(* POST /analyze: validation and dispatch (index.js:158-208) *)

\* A switch whose 'github' label is misspelt.
RouteNoGithub(inputType) ==
    CASE inputType = "address" -> "address"
      [] inputType = "text" -> "text"
      [] OTHER -> "default"

\* index.js:165-207: the branch of the switch
Route(inputType) ==
    CASE inputType = "address" -> "address"
      [] inputType = "github" -> "github"
      [] inputType = "text" -> "text"
      [] OTHER -> "default"

Receive(r) ==
    /\ pc[r] = "idle"
    /\ UNCHANGED <<req, addrVars, repoVars, fsVars, engines>>
    /\ IF Falsy(req[r].inputType) \/ Falsy(req[r].input)
       THEN Reply(r, 400, RequiredError) /\ UNCHANGED calls
       ELSE CASE Route(req[r].inputType) = "address" ->
                    Call(r, {"source"}) /\ Goto(r, "awaitSource")
                    /\ UNCHANGED <<response, responses>>
              [] Route(req[r].inputType) = "github" ->
                    Call(r, {"repo", "remove"}) /\ Goto(r, "awaitRemove")
                    /\ UNCHANGED <<response, responses>>
              [] Route(req[r].inputType) = "text" ->
                    Call(r, {"static"}) /\ Goto(r, "awaitText")
                    /\ UNCHANGED <<response, responses>>
              [] OTHER -> Reply(r, 400, InvalidTypeError) /\ UNCHANGED calls

\* index.js:203-204
TextReturn(r) ==
    /\ pc[r] = "awaitText"
    /\ UNCHANGED <<req, calls, addrVars, repoVars, fsVars, engines>>
    /\ \E o \in StaticOutcomes :
          LET textResult == getStaticAnalysis(o)
          IN  IF textResult.ok
              THEN Reply(r, 200, Json(textReport(textResult.value)))
              ELSE TopLevelCatch(r)

----------------------------------------------------------------------------
(* case 'address' (index.js:166-196) *)

\* index.js:168: sourceCodeResponse.data.result[0].SourceCode
SourceCodeOf(o) == IF o = "present" THEN "contract C {}" ELSE ""

\* No check of the source at all.
SourceFoundAlways(src) == TRUE

\* index.js:169
SourceFound(src) == ~Falsy(src)

\* index.js:167-170
SourceReturn(r) ==
    /\ pc[r] = "awaitSource"
    /\ UNCHANGED <<req, abiResponse, taskVars, aiVars, repoVars, fsVars, engines>>
    /\ \E o \in SourceOutcomes :
          IF o = "error"
          THEN TopLevelCatch(r) /\ UNCHANGED <<calls, sourceCode>>
          ELSE /\ sourceCode' = [sourceCode EXCEPT ![r] = SourceCodeOf(o)]
               /\ IF SourceFound(SourceCodeOf(o))
                  THEN Call(r, {"abi"}) /\ Goto(r, "awaitAbi")
                       /\ UNCHANGED <<response, responses>>
                  ELSE TopLevelCatch(r) /\ UNCHANGED calls

\* index.js:170-175
AbiReturn(r) ==
    /\ pc[r] = "awaitAbi"
    /\ UNCHANGED <<req, sourceCode, aiVars, repoVars, fsVars, engines>>
    /\ \E o \in AbiOutcomes :
          /\ abiResponse' = [abiResponse EXCEPT ![r] = o]
          /\ IF getContractAbi(o).ok
             THEN /\ Call(r, {"static", "dynamic", "generic"})
                  /\ staticResult' = [staticResult EXCEPT ![r] = Pending]
                  /\ dynamicResult' = [dynamicResult EXCEPT ![r] = Pending]
                  /\ genericFuzzResult' = [genericFuzzResult EXCEPT ![r] = Pending]
                  /\ Goto(r, "awaitSettled")
                  /\ UNCHANGED <<response, responses>>
             ELSE /\ TopLevelCatch(r)
                  /\ UNCHANGED <<calls, taskVars>>

\* index.js:172
StaticReturn(r) ==
    /\ staticResult[r] = Pending
    /\ \E o \in StaticOutcomes :
          staticResult' = [staticResult EXCEPT ![r] = Settle(getStaticAnalysis(o))]
    /\ UNCHANGED <<req, pc, response, responses, calls, fetchVars, dynamicResult,
                   genericFuzzResult, aiVars, repoVars, fsVars, engines>>

\* index.js:173
DynamicReturn(r) ==
    /\ dynamicResult[r] = Pending
    /\ \E o \in engines.dynamic :
          dynamicResult' = [dynamicResult EXCEPT ![r] = Settle(getDynamicAnalysis(o))]
    /\ UNCHANGED <<req, pc, response, responses, calls, fetchVars, staticResult,
                   genericFuzzResult, aiVars, repoVars, fsVars, engines>>

\* index.js:174
GenericReturn(r) ==
    /\ genericFuzzResult[r] = Pending
    /\ \E o \in engines.generic :
          genericFuzzResult' =
              [genericFuzzResult EXCEPT ![r] = Settle(getGenericFuzzingAnalysis(o))]
    /\ UNCHANGED <<req, pc, response, responses, calls, fetchVars, staticResult,
                   dynamicResult, aiVars, repoVars, fsVars, engines>>

\* Promise.all's wait: over as soon as one task rejects.
AllOrFirstRejection(sr, dr, gr) ==
    \/ Settled(sr) /\ Settled(dr) /\ Settled(gr)
    \/ "rejected" \in {sr.status, dr.status, gr.status}

\* No wait: the pipeline starts with the three tasks.
NoWait(sr, dr, gr) == TRUE

\* index.js:171: what `await Promise.allSettled([...])` waits for
AllSettledReady(sr, dr, gr) == Settled(sr) /\ Settled(dr) /\ Settled(gr)

\* index.js:171, 176-178: allSettled resolves and the AI pipeline begins
AllSettled(r) ==
    /\ pc[r] = "awaitSettled"
    /\ AllSettledReady(staticResult[r], dynamicResult[r], genericFuzzResult[r])
    /\ Call(r, {"generate"})
    /\ Goto(r, "awaitGenerate")
    /\ UNCHANGED <<req, response, responses, addrVars, repoVars, fsVars, engines>>

\* index.js:178-179, 86
GenerateReturn(r) ==
    /\ pc[r] = "awaitGenerate"
    /\ UNCHANGED <<req, fetchVars, taskVars, fuzzerOutput, repoVars, fsVars, engines>>
    /\ \E o \in engines.generate :
          LET code == generateFuzzTest(o)
          IN  IF code.ok
              THEN /\ testCode' = [testCode EXCEPT ![r] = code.value]
                   /\ Call(r, {"write"})
                   /\ Goto(r, "awaitWrite")
                   /\ UNCHANGED <<response, responses, aiFuzzing, err>>
              ELSE AiCatch(r, "generate") /\ UNCHANGED <<calls, testCode>>

\* index.js:86-89
WriteReturn(r) ==
    /\ pc[r] = "awaitWrite"
    /\ UNCHANGED <<req, fetchVars, taskVars, testCode, fuzzerOutput, repoVars,
                   tempDir, engines>>
    /\ \E o \in FsOutcomes :
          IF o = "ok"
          THEN /\ testFile' = [writer |-> r, code |-> testCode[r]]
               /\ Call(r, {"exec"})
               /\ Goto(r, "awaitExec")
               /\ UNCHANGED <<response, responses, aiFuzzing, err>>
          ELSE AiCatch(r, "write") /\ UNCHANGED <<calls, testFile>>

\* index.js:89-97, 179-185
ExecReturn(r) ==
    /\ pc[r] = "awaitExec"
    /\ UNCHANGED <<req, fetchVars, taskVars, testCode, repoVars, fsVars, engines>>
    /\ \E o \in engines.ai :
          LET out == runAIGeneratedFuzzer(o)
          IN  IF ~out.ok
              THEN AiCatch(r, "exec") /\ UNCHANGED <<calls, fuzzerOutput>>
              ELSE /\ fuzzerOutput' = [fuzzerOutput EXCEPT ![r] = out.value]
                   /\ IF out.value.status = "failed"
                      THEN /\ Call(r, {"interpret"})
                           /\ Goto(r, "awaitInterpret")
                           /\ UNCHANGED <<response, responses, aiFuzzing, err>>
                      ELSE /\ SendAddressReport(r, [status |-> out.value.status,
                                                    reason |-> out.value.log])
                           /\ UNCHANGED <<calls, err>>

\* index.js:181-182
InterpretReturn(r) ==
    /\ pc[r] = "awaitInterpret"
    /\ UNCHANGED <<req, calls, fetchVars, taskVars, testCode, fuzzerOutput,
                   repoVars, fsVars, engines>>
    /\ \E o \in InterpretOutcomes :
          LET interpretation == interpretFuzzFailure(o)
          IN  IF interpretation.ok
              THEN SendAddressReport(r, [status |-> "failed",
                                         reason |-> interpretation.value])
                   /\ UNCHANGED err
              ELSE AiCatch(r, "interpret")

----------------
(* case 'github': analyzeGitHubRepo (index.js:109-136, 199-200) *)

\* What fs.readFile gives: an error, or a content with `core` characters
\* between `pad` characters of leading and trailing whitespace.
ReadError == [ok |-> FALSE, pad |-> 0, core |-> 0]
Content(pad, core) == [ok |-> TRUE, pad |-> pad, core |-> core]
NotRead == [unread |-> TRUE]
ReadOutcomes ==
    { ReadError, Content(4, MinContentLength - 1), Content(2, MinContentLength) }

\* The length test without the trim.
TooShortUntrimmed(c) == c.pad + c.core < MinContentLength

\* index.js:124 fileContent.trim().length < 50
TooShort(c) == c.core < MinContentLength

Min(a, b) == IF a < b THEN a ELSE b

\* Every file from i on, in one slice.
BatchUnsliced(i, n) == (i + 1)..n

\* index.js:119 files.slice(i, i + BATCH_SIZE), as file numbers
Batch(i, n) == (i + 1)..Min(i + BATCH_SIZE, n)

\* index.js:118-121, 134: the head of the batch loop with loop variable i
LoopHead(r, i) ==
    /\ idx' = [idx EXCEPT ![r] = i]
    /\ IF i < files'[r]
       THEN /\ fileTask' = [fileTask EXCEPT ![r] =
                   [f \in Files |-> IF f \in Batch(i, files'[r])
                                    THEN "reading" ELSE @[f]]]
            /\ CallN(r, "readFile", Cardinality(Batch(i, files'[r])))
            /\ Goto(r, "awaitBatch")
       ELSE /\ Call(r, {"remove"})
            /\ Goto(r, "awaitCleanup")
            /\ UNCHANGED fileTask

\* index.js:111-112
RemoveReturn(r) ==
    /\ pc[r] = "awaitRemove"
    /\ UNCHANGED <<req, addrVars, repoVars, testFile, engines>>
    /\ \E o \in FsOutcomes :
          IF o = "ok"
          THEN /\ tempDir' = [state |-> "absent", owner |-> "none"]
               /\ Call(r, {"ensureDir"})
               /\ Goto(r, "awaitEnsureDir")
               /\ UNCHANGED <<response, responses>>
          ELSE TopLevelCatch(r) /\ UNCHANGED <<calls, tempDir>>

\* index.js:112-113
EnsureDirReturn(r) ==
    /\ pc[r] = "awaitEnsureDir"
    /\ UNCHANGED <<req, addrVars, repoVars, testFile, engines>>
    /\ \E o \in FsOutcomes :
          IF o = "ok"
          THEN /\ tempDir' = IF tempDir.state = "absent"
                             THEN [state |-> "empty", owner |-> r]
                             ELSE tempDir
               /\ Call(r, {"clone"})
               /\ Goto(r, "awaitClone")
               /\ UNCHANGED <<response, responses>>
          ELSE TopLevelCatch(r) /\ UNCHANGED <<calls, tempDir>>

\* index.js:113-115: git clones only into a missing or an empty directory
CloneReturn(r) ==
    /\ pc[r] = "awaitClone"
    /\ UNCHANGED <<req, addrVars, repoVars, testFile, engines>>
    /\ \E o \in FsOutcomes :
          IF o = "ok" /\ tempDir.state \in {"absent", "empty"}
          THEN /\ tempDir' = [state |-> "cloned", owner |-> r]
               /\ Call(r, {"find"})
               /\ Goto(r, "awaitFind")
               /\ UNCHANGED <<response, responses>>
          ELSE TopLevelCatch(r) /\ UNCHANGED <<calls, tempDir>>

\* What the walk meets under the workspace: a file, or a directory with its
\* entries in the order fs.readdir lists them. `statable`: fs.lstat of the
\* entry succeeds; `listable`: fs.readdir of the directory succeeds.
FileNode(base, ext, statable) ==
    [name |-> [base |-> base, ext |-> ext], isDirectory |-> FALSE,
     statable |-> statable]
DirNode(base, ext, statable, listable, entries) ==
    [name |-> [base |-> base, ext |-> ext], isDirectory |-> TRUE,
     statable |-> statable, listable |-> listable, entries |-> entries]

\* A clone with n source files at its top, all readable.
FlatRepo(n) ==
    DirNode("temp_repo", "", TRUE, TRUE,
            [k \in 1..n |-> FileNode(ToString(k), ".sol", TRUE)])

RECURSIVE findSolidityFiles(_, _)
RECURSIVE WalkEntries(_, _, _)
RECURSIVE WalkEntriesDropping(_, _, _)

\* A walk that gives up what it found in a directory when an entry of it
\* cannot be inspected.
WalkEntriesDropping(startPath, entries, result) ==
    IF entries = <<>> THEN result
    ELSE LET file == Head(entries)
             filename == Append(startPath, file.name)
         IN  IF ~file.statable THEN <<>>
             ELSE IF file.isDirectory
             THEN WalkEntriesDropping(startPath, Tail(entries),
                                      result \o findSolidityFiles(filename, file))
             ELSE IF file.name.ext = ".sol"
             THEN WalkEntriesDropping(startPath, Tail(entries), Append(result, filename))
             ELSE WalkEntriesDropping(startPath, Tail(entries), result)

\* index.js:143-151: the loop over the entries; a failed fs.lstat leaves the
\* loop for the catch of index.js:152 with `result` as it is
WalkEntries(startPath, entries, result) ==
    IF entries = <<>> THEN result
    ELSE LET file == Head(entries)
             filename == Append(startPath, file.name)
         IN  IF ~file.statable THEN result
             ELSE IF file.isDirectory
             THEN WalkEntries(startPath, Tail(entries),
                              result \o findSolidityFiles(filename, file))
             ELSE IF file.name.ext = ".sol"
             THEN WalkEntries(startPath, Tail(entries), Append(result, filename))
             ELSE WalkEntries(startPath, Tail(entries), result)

\* index.js:139-154, with `dir` what is on disk at startPath
findSolidityFiles(startPath, dir) ==
    IF ~dir.listable THEN <<>> ELSE WalkEntries(startPath, dir.entries, <<>>)

\* index.js:110
TempDirPath == <<[base |-> "temp_repo", ext |-> ""]>>

\* index.js:114-121: a workspace that is gone cannot be listed, and one
\* that was only created is empty
FindReturn(r) ==
    /\ pc[r] = "awaitFind"
    /\ \E repo \in engines.repos :
          LET found == IF tempDir.state # "cloned" THEN <<>>
                       ELSE findSolidityFiles(TempDirPath, repo)
          IN  /\ discovered' = [discovered EXCEPT ![r] = found]
              /\ files' = [files EXCEPT ![r] = Len(found)]
    /\ findings' = [findings EXCEPT ![r] = <<>>]
    /\ LoopHead(r, 0)
    /\ UNCHANGED <<req, response, responses, addrVars, fileContent, fsVars, engines>>

\* A file task without a catch: its failure rejects the batch's Promise.all
\* and leaves analyzeGitHubRepo.
FileRethrow(r, f) ==
    /\ fileTask' = [fileTask EXCEPT ![r][f] = "caught"]
    /\ TopLevelCatch(r)

\* index.js:127: the catch of a file task; the task returns
FileCatch(r, f) ==
    /\ fileTask' = [fileTask EXCEPT ![r][f] = "caught"]
    /\ UNCHANGED <<pc, response, responses>>

\* The positions at which a file task has returned: index.js:124, 126, 127.
Ended == {"skipped", "pushed", "caught"}

\* index.js:123-125, 127
ReadReturn(r, f) ==
    /\ pc[r] = "awaitBatch"
    /\ fileTask[r][f] = "reading"
    /\ \E c \in engines.reads :
          /\ tempDir.state # "cloned" => c = ReadError
          /\ fileContent' = [fileContent EXCEPT ![r][f] = c]
          /\ IF ~c.ok
             THEN FileCatch(r, f) /\ UNCHANGED calls
             ELSE IF TooShort(c)
             THEN /\ fileTask' = [fileTask EXCEPT ![r][f] = "skipped"]
                  /\ UNCHANGED <<calls, pc, response, responses>>
             ELSE /\ fileTask' = [fileTask EXCEPT ![r][f] = "analyzing"]
                  /\ Call(r, {"static"})
                  /\ UNCHANGED <<pc, response, responses>>
    /\ UNCHANGED <<req, addrVars, discovered, files, idx, findings, fsVars, engines>>

\* index.js:125-127
AnalysisReturn(r, f) ==
    /\ pc[r] = "awaitBatch"
    /\ fileTask[r][f] = "analyzing"
    /\ \E o \in engines.audits :
          LET staticRes == getStaticAnalysis(o)
          IN  IF staticRes.ok
              THEN /\ findings' = [findings EXCEPT ![r] =
                          Append(@, [file |-> f, analysis |-> staticRes.value])]
                   /\ fileTask' = [fileTask EXCEPT ![r][f] = "pushed"]
                   /\ UNCHANGED <<pc, response, responses>>
              ELSE FileCatch(r, f) /\ UNCHANGED findings
    /\ UNCHANGED <<req, calls, addrVars, discovered, files, idx, fileContent,
                   fsVars, engines>>

\* A wait that is over as soon as one task of the batch is.
AnyDone(tasks, batch) == \E f \in batch : tasks[f] \in Ended

\* index.js:120: what `await Promise.all(batch.map(...))` waits for; no task
\* rejects, each catches its own failure (index.js:127)
AllDone(tasks, batch) == \A f \in batch : tasks[f] \in Ended

\* A pause after every batch, the last included.
PauseAlways(i, n) == TRUE

\* index.js:130
MoreFiles(i, n) == i + BATCH_SIZE < n

\* index.js:120, 130-134: Promise.all of the batch resolves
BatchSettled(r) ==
    /\ pc[r] = "awaitBatch"
    /\ AllDone(fileTask[r], Batch(idx[r], files[r]))
    /\ IF MoreFiles(idx[r], files[r])
       THEN Call(r, {"pause"}) /\ Goto(r, "awaitPause")
       ELSE Call(r, {"remove"}) /\ Goto(r, "awaitCleanup")
    /\ UNCHANGED <<req, response, responses, addrVars, repoVars, fsVars, engines>>

\* index.js:131, 118: the delay elapsed; i += BATCH_SIZE
PauseReturn(r) ==
    /\ pc[r] = "awaitPause"
    /\ UNCHANGED <<discovered, files>>
    /\ LoopHead(r, idx[r] + BATCH_SIZE)
    /\ UNCHANGED <<req, response, responses, addrVars, fileContent, findings,
                   fsVars, engines>>

\* index.js:134-135, 199-200, 209
CleanupReturn(r) ==
    /\ pc[r] = "awaitCleanup"
    /\ UNCHANGED <<req, calls, addrVars, repoVars, testFile, engines>>
    /\ \E o \in FsOutcomes :
          IF o = "ok"
          THEN /\ tempDir' = [state |-> "absent", owner |-> "none"]
               /\ Reply(r, 200, Json(repoReport(findings[r])))
          ELSE TopLevelCatch(r) /\ UNCHANGED tempDir

----------------------------------------------------------------------------
(* Specifications *)

\* The engines of the address pipeline answering from `dynamic` and
\* `generic`; the harness run of the generated test ending in any way; a
\* clone of up to MaxFiles files, read and audited with any outcome.
Engines(dynamic, generic) ==
    [dynamic |-> dynamic, generic |-> generic, ai |-> HarnessOutcomes,
     generate |-> GenerateOutcomes,
     repos |-> {FlatRepo(n) : n \in 0..MaxFiles},
     reads |-> ReadOutcomes, audits |-> FileAuditOutcomes]

\* The handler's locals before it runs.
InitLocals ==
    /\ response = [r \in Reqs |-> NoResponse]
    /\ responses = [r \in Reqs |-> 0]
    /\ calls = [r \in Reqs |-> [c \in Collaborators |-> 0]]
    /\ sourceCode = [r \in Reqs |-> Absent]
    /\ abiResponse = [r \in Reqs |-> "none"]
    /\ staticResult = [r \in Reqs |-> NotStarted]
    /\ dynamicResult = [r \in Reqs |-> NotStarted]
    /\ genericFuzzResult = [r \in Reqs |-> NotStarted]
    /\ err = [r \in Reqs |-> "none"]
    /\ testCode = [r \in Reqs |-> <<>>]
    /\ fuzzerOutput = [r \in Reqs |-> Undefined]
    /\ aiFuzzing = [r \in Reqs |-> Undefined]
    /\ files = [r \in Reqs |-> 0]
    /\ idx = [r \in Reqs |-> 0]
    /\ fileTask = [r \in Reqs |-> [f \in Files |-> "none"]]
    /\ fileContent = [r \in Reqs |-> [f \in Files |-> NotRead]]
    /\ findings = [r \in Reqs |-> <<>>]
    /\ discovered = [r \in Reqs |-> <<>>]

\* The files the server finds on disk: the artifact the repository ships (or
\* one an earlier request wrote) and possibly a workspace an earlier scan left.
InitDisk ==
    /\ testFile = [writer |-> "repository", code |-> T("contract AIGeneratedFuzzer is Test {}")]
    /\ tempDir \in { [state |-> "absent", owner |-> "none"],
                     [state |-> "cloned", owner |-> "earlier"] }

\* One request, of any shape; the engines may answer anything.
Init ==
    /\ \E b \in Bodies : req = [r \in Reqs |-> IF r = "r1" THEN b ELSE NoBody]
    /\ pc = [r \in Reqs |-> IF r = "r1" THEN "idle" ELSE "absent"]
    /\ engines = Engines(HoneypotOutcomes, HarnessOutcomes)
    /\ InitLocals
    /\ InitDisk

\* One request, of any shape; a repository has up to FewFiles files, or one
\* batch and FewFiles more, and its files are all of full length or
\* unreadable.
InitLive ==
    /\ \E b \in Bodies : req = [r \in Reqs |-> IF r = "r1" THEN b ELSE NoBody]
    /\ pc = [r \in Reqs |-> IF r = "r1" THEN "idle" ELSE "absent"]
    /\ engines = [Engines(HoneypotOutcomes, HarnessOutcomes)
                     EXCEPT !.repos = {FlatRepo(n) : n \in 0..FewFiles}
                                      \cup {FlatRepo(BATCH_SIZE + FewFiles)},
                            !.reads = {ReadError, Content(2, MinContentLength)}]
    /\ InitLocals
    /\ InitDisk

\* One address request (its input present, empty or missing).
InitAddress ==
    /\ \E i \in Inputs :
          req = [r \in Reqs |-> IF r = "r1"
                                THEN [inputType |-> "address", input |-> i]
                                ELSE NoBody]
    /\ pc = [r \in Reqs |-> IF r = "r1" THEN "idle" ELSE "absent"]
    /\ engines = Engines(HoneypotOutcomes, HarnessOutcomes)
    /\ InitLocals
    /\ InitDisk

\* One repository scan of up to ManyFiles readable files of full length,
\* made while the model service is unavailable.
InitManyFiles ==
    /\ req = [r \in Reqs |-> IF r = "r1"
                              THEN [inputType |-> "github", input |-> "0xABC"]
                              ELSE NoBody]
    /\ pc = [r \in Reqs |-> IF r = "r1" THEN "idle" ELSE "absent"]
    /\ engines = [Engines(HoneypotOutcomes, HarnessOutcomes)
                     EXCEPT !.repos = {FlatRepo(n) : n \in 0..ManyFiles},
                            !.reads = {Content(2, MinContentLength)},
                            !.audits = {LlmError}]
    /\ InitLocals
    /\ InitDisk

\* One address request, for each way the harness run of the generated test
\* can end.
InitPipeline ==
    /\ req = [r \in Reqs |-> IF r = "r1"
                              THEN [inputType |-> "address", input |-> "0xABC"]
                              ELSE NoBody]
    /\ pc = [r \in Reqs |-> IF r = "r1" THEN "idle" ELSE "absent"]
    /\ \E o \in HarnessOutcomes :
          engines = [Engines(HoneypotOutcomes, HarnessOutcomes) EXCEPT !.ai = {o}]
    /\ InitLocals
    /\ InitDisk

\* What a response to the generation prompt is made of.
ResponseTokens ==
    {"(fence)solidity", "(fence)", "\n", "contract AIGeneratedFuzzer {}",
     "Here is the test:"}

Responses == UNION {[1..k -> ResponseTokens] : k \in 0..MaxLen}

\* An address request parked at the await of generateFuzzTest (index.js:178),
\* its three adapter tasks fulfilled, for each response of up to MaxLen
\* tokens the model can give.
InitExtract ==
    /\ req = [r \in Reqs |-> IF r = "r1"
                              THEN [inputType |-> "address", input |-> "0xABC"]
                              ELSE NoBody]
    /\ pc = [r \in Reqs |-> IF r = "r1" THEN "awaitGenerate" ELSE "absent"]
    /\ \E s \in Responses :
          engines = [Engines(HoneypotOutcomes, HarnessOutcomes)
                        EXCEPT !.generate = {LlmText(s)}]
    /\ response = [r \in Reqs |-> NoResponse]
    /\ responses = [r \in Reqs |-> 0]
    /\ calls = [r \in Reqs |-> [c \in Collaborators |->
                    IF r = "r1" /\ c \in {"source", "abi", "static", "dynamic",
                                          "generic", "generate"}
                    THEN 1 ELSE 0]]
    /\ sourceCode = [r \in Reqs |-> IF r = "r1" THEN SourceCodeOf("present") ELSE Absent]
    /\ abiResponse = [r \in Reqs |-> IF r = "r1" THEN "ok" ELSE "none"]
    /\ staticResult = [r \in Reqs |->
          IF r = "r1" THEN Settle(getStaticAnalysis(LlmText(<<"{riskScore:High}">>)))
          ELSE NotStarted]
    /\ dynamicResult = [r \in Reqs |->
          IF r = "r1"
          THEN Settle(getDynamicAnalysis(ExecOk(<<"{isHoneypot:false,passed}", "\n">>)))
          ELSE NotStarted]
    /\ genericFuzzResult = [r \in Reqs |->
          IF r = "r1" THEN Settle(getGenericFuzzingAnalysis(ExecOk(<<"[PASS]">>)))
          ELSE NotStarted]
    /\ err = [r \in Reqs |-> "none"]
    /\ testCode = [r \in Reqs |-> <<>>]
    /\ fuzzerOutput = [r \in Reqs |-> Undefined]
    /\ aiFuzzing = [r \in Reqs |-> Undefined]
    /\ files = [r \in Reqs |-> 0]
    /\ idx = [r \in Reqs |-> 0]
    /\ fileTask = [r \in Reqs |-> [f \in Files |-> "none"]]
    /\ fileContent = [r \in Reqs |-> [f \in Files |-> NotRead]]
    /\ findings = [r \in Reqs |-> <<>>]
    /\ discovered = [r \in Reqs |-> <<>>]
    /\ InitDisk

\* A clone with files at three levels:
\*   A.sol, contracts/{Token.sol, lib.sol/{Math.sol}, Vault.sol}, README.md, B.sol
\* where fs.readdir fails for the directories of `unlistable` and fs.lstat
\* for the entries of `unstatable`.
DirNames == {"temp_repo", "contracts", "lib"}
EntryNames == {"A", "contracts", "Token", "lib", "Math", "Vault", "README", "B"}
TreeRepo(unlistable, unstatable) ==
    LET ok(n) == n \notin unstatable
        lists(n) == n \notin unlistable
    IN  DirNode("temp_repo", "", TRUE, lists("temp_repo"),
          << FileNode("A", ".sol", ok("A")),
             DirNode("contracts", "", ok("contracts"), lists("contracts"),
               << FileNode("Token", ".sol", ok("Token")),
                  DirNode("lib", ".sol", ok("lib"), lists("lib"),
                          << FileNode("Math", ".sol", ok("Math")) >>),
                  FileNode("Vault", ".sol", ok("Vault")) >>),
             FileNode("README", ".md", ok("README")),
             FileNode("B", ".sol", ok("B")) >>)

\* A scan parked at the await of findSolidityFiles (index.js:115) on its
\* clone, for each set of failing directories and entries.
InitFind ==
    /\ req = [r \in Reqs |-> IF r = "r1"
                              THEN [inputType |-> "github", input |-> "0xABC"]
                              ELSE NoBody]
    /\ pc = [r \in Reqs |-> IF r = "r1" THEN "awaitFind" ELSE "absent"]
    /\ \E u \in SUBSET DirNames, v \in SUBSET EntryNames :
          engines = [Engines(HoneypotOutcomes, HarnessOutcomes)
                        EXCEPT !.repos = {TreeRepo(u, v)}]
    /\ response = [r \in Reqs |-> NoResponse]
    /\ responses = [r \in Reqs |-> 0]
    /\ calls = [r \in Reqs |-> [c \in Collaborators |->
                    IF r = "r1" /\ c \in {"repo", "remove", "ensureDir", "clone", "find"}
                    THEN 1 ELSE 0]]
    /\ sourceCode = [r \in Reqs |-> Absent]
    /\ abiResponse = [r \in Reqs |-> "none"]
    /\ staticResult = [r \in Reqs |-> NotStarted]
    /\ dynamicResult = [r \in Reqs |-> NotStarted]
    /\ genericFuzzResult = [r \in Reqs |-> NotStarted]
    /\ err = [r \in Reqs |-> "none"]
    /\ testCode = [r \in Reqs |-> <<>>]
    /\ fuzzerOutput = [r \in Reqs |-> Undefined]
    /\ aiFuzzing = [r \in Reqs |-> Undefined]
    /\ discovered = [r \in Reqs |-> <<>>]
    /\ files = [r \in Reqs |-> 0]
    /\ idx = [r \in Reqs |-> 0]
    /\ fileTask = [r \in Reqs |-> [f \in Files |-> "none"]]
    /\ fileContent = [r \in Reqs |-> [f \in Files |-> NotRead]]
    /\ findings = [r \in Reqs |-> <<>>]
    /\ testFile = [writer |-> "repository", code |-> T("contract AIGeneratedFuzzer is Test {}")]
    /\ tempDir = [state |-> "cloned", owner |-> "r1"]

\* Two address requests served at once, both parked at the await of
\* generateFuzzTest (index.js:178) with their three adapter tasks fulfilled.
InitRace ==
    /\ req = [r \in Reqs |-> [inputType |-> "address", input |-> "0xABC"]]
    /\ pc = [r \in Reqs |-> "awaitGenerate"]
    /\ engines = Engines(HoneypotOutcomes, HarnessOutcomes)
    /\ response = [r \in Reqs |-> NoResponse]
    /\ responses = [r \in Reqs |-> 0]
    /\ calls = [r \in Reqs |-> [c \in Collaborators |->
                    IF c \in {"source", "abi", "static", "dynamic", "generic", "generate"}
                    THEN 1 ELSE 0]]
    /\ sourceCode = [r \in Reqs |-> SourceCodeOf("present")]
    /\ abiResponse = [r \in Reqs |-> "ok"]
    /\ staticResult = [r \in Reqs |->
          Settle(getStaticAnalysis(LlmText(<<"{riskScore:High}">>)))]
    /\ dynamicResult = [r \in Reqs |->
          Settle(getDynamicAnalysis(ExecOk(<<"{isHoneypot:false,passed}", "\n">>)))]
    /\ genericFuzzResult = [r \in Reqs |->
          Settle(getGenericFuzzingAnalysis(ExecOk(<<"[PASS]">>)))]
    /\ err = [r \in Reqs |-> "none"]
    /\ testCode = [r \in Reqs |-> <<>>]
    /\ fuzzerOutput = [r \in Reqs |-> Undefined]
    /\ aiFuzzing = [r \in Reqs |-> Undefined]
    /\ discovered = [r \in Reqs |-> <<>>]
    /\ files = [r \in Reqs |-> 0]
    /\ idx = [r \in Reqs |-> 0]
    /\ fileTask = [r \in Reqs |-> [f \in Files |-> "none"]]
    /\ fileContent = [r \in Reqs |-> [f \in Files |-> NotRead]]
    /\ findings = [r \in Reqs |-> <<>>]
    /\ InitDisk

\* Two repository scans requested at once, of repositories of up to FewFiles
\* files.
InitScans ==
    /\ req = [r \in Reqs |-> [inputType |-> "github", input |-> "0xABC"]]
    /\ pc = [r \in Reqs |-> "idle"]
    /\ engines = [Engines(HoneypotOutcomes, HarnessOutcomes)
                     EXCEPT !.repos = {FlatRepo(n) : n \in 0..FewFiles}]
    /\ InitLocals
    /\ InitDisk

\* Two runs of the same address request against a contract for
\* which the honeypot simulation and the generic harness each have one answer.
InitPair ==
    /\ req = [r \in Reqs |-> [inputType |-> "address", input |-> "0xABC"]]
    /\ pc = [r \in Reqs |-> "idle"]
    /\ \E d \in HoneypotOutcomes, g \in HarnessOutcomes :
          engines = Engines({d}, {g})
    /\ InitLocals
    /\ InitDisk
    /\ tempDir.state = "absent"

AddressNext(r) ==
    \/ SourceReturn(r)
    \/ AbiReturn(r)
    \/ StaticReturn(r)
    \/ DynamicReturn(r)
    \/ GenericReturn(r)
    \/ AllSettled(r)
    \/ GenerateReturn(r)
    \/ WriteReturn(r)
    \/ ExecReturn(r)
    \/ InterpretReturn(r)

RepoNext(r) ==
    \/ RemoveReturn(r)
    \/ EnsureDirReturn(r)
    \/ CloneReturn(r)
    \/ FindReturn(r)
    \/ \E f \in Files : ReadReturn(r, f)
    \/ \E f \in Files : AnalysisReturn(r, f)
    \/ BatchSettled(r)
    \/ PauseReturn(r)
    \/ CleanupReturn(r)

Next ==
    \E r \in Reqs :
        \/ Receive(r)
        \/ TextReturn(r)
        \/ AddressNext(r)
        \/ RepoNext(r)

Spec == Init /\ [][Next]_vars

\* Every external call a request awaits eventually returns, and the handler
\* resumes once what it awaits has settled: no step of a request stays
\* possible forever without being taken.
Resume(r) == Receive(r) \/ TextReturn(r) \/ AddressNext(r) \/ RepoNext(r)

SpecLive == InitLive /\ [][Next]_vars /\ \A r \in Reqs : WF_vars(Resume(r))

\* The server serving address requests only.
NextAddress == \E r \in Reqs : Receive(r) \/ AddressNext(r)

SpecAddress == InitAddress /\ [][NextAddress]_vars

SpecPipeline == InitPipeline /\ [][NextAddress]_vars

\* The AI pipeline from the return of the generation call on.
NextStages ==
    \E r \in Reqs :
        \/ GenerateReturn(r)
        \/ WriteReturn(r)
        \/ ExecReturn(r)
        \/ InterpretReturn(r)

SpecExtract == InitExtract /\ [][NextStages]_vars

\* The AI pipelines of two address requests interleave at their awaits.
SpecRace == InitRace /\ [][NextStages]_vars

\* The server serving repository scans only.
NextRepo == \E r \in Reqs : Receive(r) \/ RepoNext(r)

SpecManyFiles == InitManyFiles /\ [][NextRepo]_vars

\* The return of the file discovery.
NextFind == \E r \in Reqs : FindReturn(r)

SpecFind == InitFind /\ [][NextFind]_vars

\* The handlers of the two scans interleave at their awaits. A repository of
\* fewer than BATCH_SIZE files is scanned in one batch, so no pause is made
\* (index.js:130) and none returns.
NextScans ==
    \E r \in Reqs :
        \/ Receive(r)
        \/ RemoveReturn(r)
        \/ EnsureDirReturn(r)
        \/ CloneReturn(r)
        \/ FindReturn(r)
        \/ \E f \in Files : ReadReturn(r, f)
        \/ \E f \in Files : AnalysisReturn(r, f)
        \/ BatchSettled(r)
        \/ CleanupReturn(r)

SpecScans == InitScans /\ [][NextScans]_vars

\* The two runs are made one after the other.
NextPair ==
    \E r \in Reqs :
        \/ Receive(r) /\ \A q \in Reqs : pc[q] \in {"idle", "done"}
        \/ AddressNext(r)

SpecPair == InitPair /\ [][NextPair]_vars

----------------------------------------------------------------------------
(* Vocabulary of the properties *)

\* The external calls request r is waiting for.
InFlight(r) ==
    (CASE pc[r] = "awaitSource" -> {"source"}
       [] pc[r] = "awaitAbi" -> {"abi"}
       [] pc[r] = "awaitGenerate" -> {"generate"}
       [] pc[r] = "awaitWrite" -> {"write"}
       [] pc[r] = "awaitExec" -> {"exec"}
       [] pc[r] = "awaitInterpret" -> {"interpret"}
       [] pc[r] = "awaitText" -> {"static"}
       [] pc[r] = "awaitRemove" -> {"remove"}
       [] pc[r] = "awaitEnsureDir" -> {"ensureDir"}
       [] pc[r] = "awaitClone" -> {"clone"}
       [] pc[r] = "awaitFind" -> {"find"}
       [] pc[r] = "awaitPause" -> {"pause"}
       [] pc[r] = "awaitCleanup" -> {"remove"}
       [] OTHER -> {})
    \cup (IF staticResult[r] = Pending THEN {"static"} ELSE {})
    \cup (IF dynamicResult[r] = Pending THEN {"dynamic"} ELSE {})
    \cup (IF genericFuzzResult[r] = Pending THEN {"generic"} ELSE {})
    \cup (IF \E f \in Files : fileTask[r][f] = "reading" THEN {"readFile"} ELSE {})
    \cup (IF \E f \in Files : fileTask[r][f] = "analyzing" THEN {"static"} ELSE {})

Handled(r) == pc[r] \notin {"absent", "idle"}

\* Everything request r awaited has settled and its handler is about to
\* resume (the continuation of Promise.allSettled, index.js:170, or of
\* Promise.all, index.js:120).
Resuming(r) ==
    \/ /\ pc[r] = "awaitSettled"
       /\ AllSettledReady(staticResult[r], dynamicResult[r], genericFuzzResult[r])
    \/ /\ pc[r] = "awaitBatch"
       /\ AllDone(fileTask[r], Batch(idx[r], files[r]))
Answered(r) == pc[r] = "done"
AddressReport(r) ==
    response[r].status = 200 /\ response[r].body.reportType = "address"
ServerError(r) ==
    response[r] = [status |-> 500,
                   body |-> [error |-> "Failed to complete analysis. Please check your input."]]
NoCalls(r, cs) == \A c \in cs : calls[r][c] = 0

\* The three adapter fields a report must carry, given the settled tasks.
AdapterFieldsFaithful(r) ==
    LET b == response[r].body
    IN  /\ b.staticAnalysis = IF staticResult[r].status = "fulfilled"
                              THEN staticResult[r].value ELSE Null
        /\ b.dynamicAnalysis = IF dynamicResult[r].status = "fulfilled"
                               THEN dynamicResult[r].value
                               ELSE [isHoneypot |-> FALSE,
                                     reason |-> <<"Honeypot check failed.">>]
        /\ b.genericFuzzing = IF genericFuzzResult[r].status = "fulfilled"
                              THEN genericFuzzResult[r].value
                              ELSE [status |-> "incompatible",
                                    reason |-> <<"Generic fuzzing failed.">>]

AllRejected(r) ==
    /\ staticResult[r].status = "rejected"
    /\ dynamicResult[r].status = "rejected"
    /\ genericFuzzResult[r].status = "rejected"

\* ceil(n / BATCH_SIZE), written out for the batch size 5
Ceil5(n) == (n + 4) \div 5

\* The batch loop of r's scan is running / has been left.
Scanning(r) == pc[r] \in {"awaitBatch", "awaitPause"}
ScanOver(r) == calls[r]["remove"] = 2

\* The file tasks r's scan has started so far, and the batches they make.
Started(r) == {f \in Files : fileTask[r][f] # "none"}
BatchesRun(r) == IF files[r] = 0 THEN 0 ELSE idx[r] \div 5 + 1

\* How file f's task ended.
HasEnded(r, f) == fileTask[r][f] \in {"skipped", "pushed", "caught"}
ReadFailed(r, f) == fileTask[r][f] = "caught" /\ fileContent[r][f] = ReadError
AuditFailed(r, f) == fileTask[r][f] = "caught" /\ fileContent[r][f] # ReadError
Entries(r, f) == {k \in 1..Len(findings[r]) : findings[r][k].file = f}

\* File f was read and the trimmed text has fewer than / at least 50 characters.
WasRead(r, f) == fileContent[r][f] # [unread |-> TRUE] /\ fileContent[r][f].ok
ShortText(r, f) == WasRead(r, f) /\ fileContent[r][f].core < 50
FullText(r, f) == WasRead(r, f) /\ fileContent[r][f].core >= 50

\* The fences of a response, and the block between the first two.
FencePositions(s) ==
    {i \in 1..Len(s) : s[i] \in {"(fence)", "(fence)json", "(fence)solidity"}}
FirstFence(s) == CHOOSE i \in FencePositions(s) : \A j \in FencePositions(s) : i <= j
LastFence(s) == CHOOSE i \in FencePositions(s) : \A j \in FencePositions(s) : j <= i
OneBlock(s) == Cardinality(FencePositions(s)) = 2 /\ s[LastFence(s)] = "(fence)"
HasBlock(s) == Cardinality(FencePositions(s)) >= 2
Inner(s) == SubSeq(s, FirstFence(s) + 1, LastFence(s) - 1)

\* generateFuzzTest has returned to r's handler: with a test, or by throwing.
Extracted(r) == calls[r]["generate"] = 1 /\ pc[r] # "awaitGenerate"
GenerateFailed(r) == Extracted(r) /\ err[r] = "generate"
GenerateGave(r, code) == Extracted(r) /\ err[r] # "generate" /\ testCode[r] = code

\* The path of a file of the tree clone, and the paths a walk returned.
PathOf(dirs, base) ==
    <<[base |-> "temp_repo", ext |-> ""]>> \o dirs \o <<[base |-> base, ext |-> ".sol"]>>
InContracts == <<[base |-> "contracts", ext |-> ""]>>
InLib == <<[base |-> "contracts", ext |-> ""], [base |-> "lib", ext |-> ".sol"]>>
Returned(r) == {discovered[r][k] : k \in 1..Len(discovered[r])}
Walked(r) == calls[r]["find"] = 1 /\ pc[r] # "awaitFind"

\* The files of scan r whose Static Adapter call has not returned.
Analyzing(r) == {f \in Files : fileTask[r][f] = "analyzing"}

AiStages == {"generate", "write", "exec", "interpret"}
AdapterTasks == {"static", "dynamic", "generic"}

----------------------------------------------------------------------------
(* Properties *)

\* C1 (SpecAddress): every report returned for an address request carries the four keys
\* staticAnalysis, dynamicAnalysis, genericFuzzing and aiFuzzing, whichever of
\* the engines and pipeline stages failed.
C1_FourKeys ==
    \A r \in Reqs :
        AddressReport(r) =>
            {"staticAnalysis", "dynamicAnalysis", "genericFuzzing", "aiFuzzing"}
                \subseteq DOMAIN response[r].body

\* An address report sent although all three tasks were rejected and a
\* pipeline stage threw.
C1_Witness ==
    \E r \in Reqs : AddressReport(r) /\ AllRejected(r) /\ err[r] # "none"

\* C2 (SpecAddress): in an address report each adapter field is the task's own value when
\* the task fulfilled and exactly its fallback when it was rejected (null, the
\* honeypot fallback, the generic-fuzzing fallback); once the tasks are
\* launched the request is answered with a report, not an error.
C2_Fallbacks ==
    \A r \in Reqs :
        /\ AddressReport(r) => AdapterFieldsFaithful(r)
        /\ (Answered(r) /\ calls[r]["dynamic"] > 0) => AddressReport(r)

\* A report whose three adapter fields are all fallbacks while the AI
\* pipeline passed.
C2_Witness ==
    \E r \in Reqs :
        /\ AddressReport(r) /\ AllRejected(r)
        /\ response[r].body.aiFuzzing.status = "passed"

\* C3 (SpecPair): of two runs of the same address request against the same
\* dynamic and generic engine outcomes, one with a failing Static Adapter and
\* one with a succeeding one, the reports carry equal dynamicAnalysis and
\* equal genericFuzzing.
C3_Isolation ==
    \A a, b \in Reqs :
        ( /\ AddressReport(a) /\ AddressReport(b)
          /\ staticResult[a].status = "rejected"
          /\ staticResult[b].status = "fulfilled" )
        => /\ response[a].body.dynamicAnalysis = response[b].body.dynamicAnalysis
           /\ response[a].body.genericFuzzing = response[b].body.genericFuzzing

\* Two reports, Static failed in one only, and the other two engines gave
\* results of their own (a honeypot verdict, a failed invariant).
C3_Witness ==
    \E a, b \in Reqs :
        /\ AddressReport(a) /\ AddressReport(b)
        /\ staticResult[a].status = "rejected"
        /\ staticResult[b].status = "fulfilled"
        /\ dynamicResult[a].status = "fulfilled"
        /\ dynamicResult[a].value.isHoneypot
        /\ genericFuzzResult[a].status = "fulfilled"
        /\ genericFuzzResult[a].value.status = "failed"

\* C4 (SpecAddress): an address report is composed and sent only when the three adapter
\* tasks have settled and the AI pipeline has ended: nothing of the request
\* is still in flight, and every settled result is in the report.
C4_SettleAll ==
    \A r \in Reqs :
        AddressReport(r) =>
            /\ Settled(staticResult[r])
            /\ Settled(dynamicResult[r])
            /\ Settled(genericFuzzResult[r])
            /\ aiFuzzing[r] # Undefined
            /\ InFlight(r) = {}
            /\ AdapterFieldsFaithful(r)
            /\ response[r].body.aiFuzzing = aiFuzzing[r]

\* A report sent after one task was rejected, the others fulfilled, and the
\* pipeline ran all its stages.
C4_Witness ==
    \E r \in Reqs :
        /\ AddressReport(r)
        /\ dynamicResult[r].status = "rejected"
        /\ staticResult[r].status = "fulfilled"
        /\ genericFuzzResult[r].status = "fulfilled"
        /\ calls[r]["interpret"] = 1
        /\ aiFuzzing[r].status = "failed"

C6_AbiNotFoundIsolated ==
    \A r \in Reqs :
        (Answered(r) /\ abiResponse[r] = "status0") =>
            /\ AddressReport(r)
            /\ response[r].body.aiFuzzing.status = "incompatible"

\* C7 (SpecAddress): when GenerateTest, ExecuteTest (persisting the artifact included) or
\* Interpret throws, the request is answered with an address report whose
\* aiFuzzing is the generic 'incompatible' outcome, no later stage was
\* called, and the three adapter fields are what the tasks settled to.
C7_StageThrow ==
    \A r \in Reqs :
        err[r] # "none" =>
            /\ AddressReport(r)
            /\ response[r].body.aiFuzzing =
                  [status |-> "incompatible",
                   reason |-> <<"AI-driven fuzzing process failed to run.">>]
            /\ err[r] = "generate" => NoCalls(r, {"write", "exec", "interpret"})
            /\ err[r] = "write" => NoCalls(r, {"exec", "interpret"})
            /\ err[r] = "exec" => NoCalls(r, {"interpret"})
            /\ AdapterFieldsFaithful(r)

\* The interpretation threw after the generated test failed, with a
\* fulfilled Static task.
C7_Witness ==
    \E r \in Reqs :
        /\ err[r] = "interpret"
        /\ Answered(r)
        /\ staticResult[r].status = "fulfilled"

\* C8 (SpecAddress): when the explorer returns an empty source field, the request is
\* answered with the generic server error and neither the ABI lookup nor any
\* adapter or pipeline stage was called.
C8_NoSource ==
    \A r \in Reqs :
        sourceCode[r] = "" =>
            /\ ServerError(r)
            /\ NoCalls(r, {"abi"} \cup AdapterTasks \cup AiStages)

C8_Witness ==
    \E r \in Reqs :
        /\ req[r].inputType = "address"
        /\ sourceCode[r] = ""
        /\ Answered(r)
        /\ calls[r]["source"] = 1

\* C9: a request whose inputType or input is missing or empty is answered
\* 400 'Input type and value are required.'; one with both present and an
\* inputType other than 'address', 'github', 'text' is answered 400 'Invalid
\* input type.'; neither calls any collaborator.
C9_Validation ==
    \A r \in Reqs :
        Handled(r) =>
            LET t == req[r].inputType
                i == req[r].input
                incomplete == t \in {Absent, ""} \/ i \in {Absent, ""}
            IN  /\ incomplete =>
                      /\ response[r] =
                            [status |-> 400,
                             body |-> [error |-> "Input type and value are required."]]
                      /\ NoCalls(r, Collaborators)
                /\ (~incomplete /\ t \notin {"address", "github", "text"}) =>
                      /\ response[r] =
                            [status |-> 400, body |-> [error |-> "Invalid input type."]]
                      /\ NoCalls(r, Collaborators)

\* A request with an empty inputType and a present input was answered.
C9_Witness ==
    \E r \in Reqs :
        /\ Answered(r)
        /\ req[r].inputType = ""
        /\ req[r].input = "0xABC"

\* C10: a valid request enters exactly the pipeline its inputType names and,
\* when answered with a report, gets that pipeline's report; a 'text' request
\* makes exactly one Static Adapter call and its report is {reportType:'text',
\* files:[{file:'PastedCode.sol', analysis}]} with that one entry.
C10_Dispatch ==
    \A r \in Reqs :
        (Handled(r) /\ ~Falsy(req[r].inputType) /\ ~Falsy(req[r].input)) =>
            LET t == req[r].inputType
                repoCalls == {"repo", "remove", "ensureDir", "clone", "find",
                              "readFile", "pause"}
                addressCalls == {"source", "abi", "dynamic", "generic"} \cup AiStages
                isReport == response[r].status = 200
            IN  /\ t = "address" =>
                      /\ calls[r]["source"] = 1
                      /\ NoCalls(r, repoCalls)
                      /\ isReport => response[r].body.reportType = "address"
                /\ t = "github" =>
                      /\ calls[r]["repo"] = 1
                      /\ NoCalls(r, addressCalls)
                      /\ isReport => response[r].body.reportType = "repo"
                /\ t = "text" =>
                      /\ calls[r]["static"] = 1
                      /\ NoCalls(r, repoCalls \cup addressCalls)
                      /\ isReport =>
                            \E tok \in {"{riskScore:High}", "{riskScore:Severe}"} :
                                response[r].body =
                                    [reportType |-> "text",
                                     files |-> <<[file |-> "PastedCode.sol",
                                                  analysis |-> JsonValue(tok)]>>]

\* A 'text' request answered with its report.
C10_Witness ==
    \E r \in Reqs :
        /\ req[r].inputType = "text"
        /\ response[r].status = 200
        /\ Len(response[r].body.files) = 1

\* C11: a request with both fields present and one of the three input types
\* is answered either with its report (200) or with status 500 and exactly
\* the body {error:'Failed to complete analysis. Please check your input.'};
\* the latter is what a missing source, a 'text' request whose analysis does
\* not parse and a failed clone get, and no 500 carries any other body.
C11_GenericError ==
    \A r \in Reqs :
        LET t == req[r].inputType
            generic == [status |-> 500,
                        body |-> [error |->
                            "Failed to complete analysis. Please check your input."]]
        IN  /\ response[r].status = 500 => response[r] = generic
            /\ (Answered(r) /\ t \in {"address", "github", "text"}
                    /\ ~Falsy(req[r].input)) =>
                   response[r].status = 200 \/ response[r] = generic
            /\ (Answered(r) /\ sourceCode[r] = "") => response[r] = generic
            /\ (Answered(r) /\ calls[r]["clone"] = 1 /\ calls[r]["find"] = 0) =>
                   response[r] = generic
            /\ (Answered(r) /\ t = "text" /\ ~Falsy(req[r].input)) =>
                   \/ response[r] = generic
                   \/ response[r].status = 200
                      /\ response[r].body.files[1].analysis.riskScore
                            \in {"High", "Severe"}

\* A repository scan whose clone failed was answered.
C11_Witness ==
    \E r \in Reqs :
        /\ req[r].inputType = "github"
        /\ calls[r]["clone"] = 1 /\ calls[r]["find"] = 0
        /\ response[r].status = 500

\* C12 (SpecManyFiles) as stated: a scan of N files runs ceil(N/5) batches
\* and makes ceil(N/5) - 1 pauses, for every N.
C12_PausesOneLess ==
    \A r \in Reqs :
        ScanOver(r) =>
            /\ BatchesRun(r) = Ceil5(files[r])
            /\ calls[r]["pause"] = Ceil5(files[r]) - 1

\* C12 (SpecManyFiles) as amended: a scan of N >= 1 files runs ceil(N/5)
\* batches, each of 5 files except possibly the last, with ceil(N/5) - 1
\* pauses, one after each batch but the last; a scan of no file runs no
\* batch and makes no pause.
C12_Batches ==
    \A r \in Reqs :
        LET N == files[r]
            b == BatchesRun(r)
        IN  /\ Scanning(r) =>
                  /\ idx[r] % 5 = 0 /\ idx[r] < N
                  /\ Started(r) = 1..(IF b < Ceil5(N) THEN 5 * b ELSE N)
                  /\ calls[r]["readFile"] = Cardinality(Started(r))
                  /\ calls[r]["pause"] = IF pc[r] = "awaitPause" THEN b ELSE b - 1
                  /\ pc[r] = "awaitPause" => b < Ceil5(N)
            /\ ScanOver(r) =>
                  /\ b = Ceil5(N)
                  /\ Started(r) = 1..N
                  /\ calls[r]["readFile"] = N
                  /\ calls[r]["pause"] = IF N = 0 THEN 0 ELSE Ceil5(N) - 1

\* A scan of 12 files is over, after batches of 5, 5 and 2 and two pauses.
C12_Witness ==
    \E r \in Reqs :
        /\ ScanOver(r) /\ files[r] = 12
        /\ idx[r] = 10 /\ calls[r]["pause"] = 2

\* C13: whenever a file task of a batch has started, every file task of every
\* earlier batch has settled, whatever its read or its audit gave, and the
\* pause after each earlier batch has elapsed; no task runs during a pause.
C13_Sequential ==
    \A r \in Reqs :
        LET elapsed == calls[r]["pause"] - (IF pc[r] = "awaitPause" THEN 1 ELSE 0)
        IN  /\ \A f \in Started(r) :
                  LET n == (f - 1) \div 5
                  IN  /\ \A g \in Files : (g - 1) \div 5 < n => HasEnded(r, g)
                      /\ elapsed >= n
            /\ pc[r] = "awaitPause" => \A f \in Started(r) : HasEnded(r, f)

\* A task of the second batch is running after a first batch in which one
\* read failed, one audit failed and one file got its entry.
C13_Witness ==
    \E r \in Reqs :
        /\ fileTask[r][6] = "analyzing"
        /\ \E f, g, h \in 1..5 :
              ReadFailed(r, f) /\ AuditFailed(r, g) /\ Entries(r, h) # {}

\* C14: once a repository scan has been answered, with a report or with an
\* error, the workspace directory it created no longer exists.
C14_WorkspaceRemoved ==
    \A r \in Reqs :
        (Answered(r) /\ calls[r]["repo"] = 1) => tempDir.owner # r

\* C15: a file whose read or whose audit failed has no entry; a file whose
\* audit succeeded has its entry, one, from then on; a scan that found its
\* files is answered only after every file's task has returned; and its
\* report lists exactly the entries of the files whose audit succeeded.
C15_FileFailureCaught ==
    \A r \in Reqs :
        LET N == files[r]
            pushed == {f \in Files : fileTask[r][f] = "pushed"}
        IN  /\ \A f \in Files :
                  /\ fileTask[r][f] = "caught" => Entries(r, f) = {}
                  /\ fileTask[r][f] = "pushed" => Cardinality(Entries(r, f)) = 1
            /\ (ScanOver(r) \/ (Answered(r) /\ calls[r]["find"] = 1)) =>
                  /\ ScanOver(r)
                  /\ \A f \in 1..N : HasEnded(r, f)
            /\ (req[r].inputType = "github" /\ response[r].status = 200) =>
                  /\ response[r].body.reportType = "repo"
                  /\ response[r].body.files = findings[r]
                  /\ {findings[r][k].file : k \in 1..Len(findings[r])} = pushed
                  /\ Len(findings[r]) = Cardinality(pushed)

\* A report of a scan of two batches: in the first a read failed, an audit
\* failed and a file got its entry; the file of the second got its entry.
C15_Witness ==
    \E r \in Reqs :
        /\ response[r].status = 200
        /\ files[r] = 6
        /\ \E f, g, h \in 1..5 :
              ReadFailed(r, f) /\ AuditFailed(r, g) /\ fileTask[r][h] = "pushed"
        /\ fileTask[r][6] = "pushed"
        /\ Len(response[r].body.files) >= 2

\* C16: a file whose trimmed content has fewer than 50 characters gets no
\* entry and no Static Adapter call (the scan calls the adapter once per
\* file of at least 50 trimmed characters, and for no other file); every
\* entry is a parsed analysis of such a file; no file has two entries.
C16_ShortSkipped ==
    \A r \in Reqs :
        req[r].inputType = "github" =>
            /\ \A f \in Files :
                  /\ ShortText(r, f) => fileTask[r][f] = "skipped" /\ Entries(r, f) = {}
                  /\ Cardinality(Entries(r, f)) <= 1
            /\ calls[r]["static"] = Cardinality({f \in Files : FullText(r, f)})
            /\ \A k \in 1..Len(findings[r]) :
                  /\ FullText(r, findings[r][k].file)
                  /\ fileTask[r][findings[r][k].file] = "pushed"
                  /\ findings[r][k].analysis.riskScore = "High"

\* A report with an entry, of a scan that met a file of 49 characters
\* between 4 characters of whitespace.
C16_Witness ==
    \E r \in Reqs :
        /\ response[r].status = 200
        /\ Len(findings[r]) >= 1
        /\ \E f \in Files :
              /\ fileContent[r][f] = [ok |-> TRUE, pad |-> 4, core |-> 49]
              /\ fileTask[r][f] = "skipped"

\* C17 (SpecScans): from the return of the fs.ensureDir of a scan to the
\* return of its closing fs.remove the workspace directory exists and is the
\* one that scan created or cloned: no other scan has removed it, created it
\* or cloned into it.
C17_SoleOwner ==
    \A r \in Reqs :
        pc[r] \in {"awaitClone", "awaitFind", "awaitBatch", "awaitPause", "awaitCleanup"}
            => tempDir.state # "absent" /\ tempDir.owner = r

\* C18 (SpecPair): when the harness run of the Generic Fuzzer Adapter has
\* ended with an exit code, the adapter's result is 'passed' for exit zero,
\* the 'incompatible' outcome when stdout and stderr together hold a
\* compiler-error marker, and otherwise 'failed' with the log in its reason.
C18_CombinedOutput ==
    \A r \in Reqs : \A o \in engines.generic :
        (Settled(genericFuzzResult[r]) /\ o.attached) =>
            LET combined == o.stdout \o o.stderr
                marker == \E i \in 1..Len(combined) :
                              combined[i] \in {"Compiler error", "compilation failed"}
                res == genericFuzzResult[r]
            IN  /\ res.status = "fulfilled"
                /\ o.exit = 0 => res.value.status = "passed"
                /\ (o.exit # 0 /\ marker) =>
                      res.value =
                          [status |-> "incompatible",
                           reason |-> <<"Generic test suite was not compatible with this contract.">>]
                /\ (o.exit # 0 /\ ~marker) =>
                      /\ res.value.status = "failed"
                      /\ res.value.reason =
                            <<"Generic invariant violated. Details: ">> \o combined

\* C19 (SpecPipeline): the stages are called in the order GenerateTest,
\* ExecuteTest, Interpret, each at most once and one at a time; when the
\* harness run has ended with an exit code, Interpret is called if and only
\* if the exit was non-zero and the output holds no compiler-error marker,
\* and then aiFuzzing is 'failed' with the interpretation; exit zero gives
\* 'passed' and a compiler-error marker gives 'incompatible'.
C19_PipelineStates ==
    \A r \in Reqs : \A o \in engines.ai :
        LET combined == o.stdout \o o.stderr
            marker == \E i \in 1..Len(combined) :
                          combined[i] \in {"Compiler error", "compilation failed"}
            genuine == o.exit # 0 /\ ~marker
            execEnded == calls[r]["exec"] = 1 /\ pc[r] # "awaitExec"
        IN  /\ \A c \in AiStages : calls[r][c] <= 1
            /\ Cardinality(InFlight(r) \cap AiStages) <= 1
            /\ calls[r]["write"] = 1 => calls[r]["generate"] = 1 /\ pc[r] # "awaitGenerate"
            /\ calls[r]["exec"] = 1 => calls[r]["write"] = 1 /\ pc[r] # "awaitWrite"
            /\ calls[r]["interpret"] = 1 => execEnded
            /\ (execEnded /\ o.attached) =>
                  /\ calls[r]["interpret"] = 1 <=> genuine
                  /\ Answered(r) =>
                        /\ AddressReport(r)
                        /\ o.exit = 0 => response[r].body.aiFuzzing.status = "passed"
                        /\ (o.exit # 0 /\ marker) =>
                              response[r].body.aiFuzzing.status = "incompatible"
                        /\ (genuine /\ err[r] = "none") =>
                              response[r].body.aiFuzzing =
                                  [status |-> "failed",
                                   reason |-> <<"withdraw() can be re-entered.">>]

\* C20 (SpecAddress): in every address report genericFuzzing.status and
\* aiFuzzing.status are each one of 'passed', 'failed', 'incompatible'.
C20_StatusEnum ==
    \A r \in Reqs :
        AddressReport(r) =>
            /\ response[r].body.genericFuzzing.status
                  \in {"passed", "failed", "incompatible"}
            /\ response[r].body.aiFuzzing.status
                  \in {"passed", "failed", "incompatible"}

\* A report after the generic harness could not be run and the generated
\* test failed and was interpreted.
C20_Witness ==
    \E r \in Reqs :
        /\ AddressReport(r)
        /\ genericFuzzResult[r].status = "rejected"
        /\ response[r].body.aiFuzzing.status = "failed"

\* C21: every static analysis result in a report (the staticAnalysis of an
\* address report when it is not null, the analysis of each file entry of a
\* text or repository report) has a riskScore among Low, Medium, High and
\* Critical.
C21_RiskScoreEnum ==
    \A r \in Reqs :
        response[r].status = 200 =>
            LET b == response[r].body
                scores == {"Low", "Medium", "High", "Critical"}
            IN  IF b.reportType = "address"
                THEN b.staticAnalysis = [null |-> TRUE]
                        \/ b.staticAnalysis.riskScore \in scores
                ELSE \A k \in 1..Len(b.files) : b.files[k].analysis.riskScore \in scores

\* C22 (SpecExtract) as stated: from a response with exactly one fenced block
\* GenerateTest returns the block's inner text, trimmed; it fails only when
\* the response holds no fenced block.
C22_AnyFencedBlock ==
    \A r \in Reqs : \A o \in engines.generate :
        (Extracted(r) /\ o.ok) =>
            /\ OneBlock(o.text) => GenerateGave(r, Trim(Inner(o.text)))
            /\ GenerateFailed(r) => ~HasBlock(o.text)

\* C22 (SpecExtract) as amended: from a response with exactly one fenced
\* block, GenerateTest returns the block's inner text, trimmed and otherwise
\* verbatim, when the block opens with the solidity fence and is not empty,
\* and fails when it opens with another fence or is empty; it also fails when
\* the response holds no fenced block.
C22_SolidityBlock ==
    \A r \in Reqs : \A o \in engines.generate :
        (Extracted(r) /\ o.ok) =>
            LET s == o.text
                tagged == s[FirstFence(s)] = "(fence)solidity"
            IN  /\ (OneBlock(s) /\ tagged /\ Inner(s) # <<>>) =>
                      GenerateGave(r, Trim(Inner(s)))
                /\ (OneBlock(s) /\ (~tagged \/ Inner(s) = <<>>)) => GenerateFailed(r)
                /\ ~HasBlock(s) => GenerateFailed(r)

\* The test was extracted from a block that holds it between two line breaks.
C22_Witness ==
    \E r \in Reqs :
        /\ engines.generate =
              {[ok |-> TRUE,
                text |-> <<"(fence)solidity", "\n", "contract AIGeneratedFuzzer {}",
                           "\n", "(fence)">>]}
        /\ GenerateGave(r, <<"contract AIGeneratedFuzzer {}">>)

\* C23 (SpecFind) as stated: the walk returns, without duplicate, exactly the
\* source files none of whose enclosing directories met a failure, where a
\* directory meets a failure when it cannot be listed or one of its entries
\* cannot be inspected.
C23_EmptySubtree ==
    \A r \in Reqs : \A repo \in engines.repos :
        Walked(r) =>
            LET top == repo
                con == repo.entries[2]
                lib == repo.entries[2].entries[2]
                failed(d) == ~d.listable
                             \/ \E k \in 1..Len(d.entries) : ~d.entries[k].statable
                expected ==
                    (IF ~failed(top) THEN {PathOf(<<>>, "A"), PathOf(<<>>, "B")} ELSE {})
                    \cup (IF ~failed(top) /\ ~failed(con)
                          THEN {PathOf(InContracts, "Token"), PathOf(InContracts, "Vault")}
                          ELSE {})
                    \cup (IF ~failed(top) /\ ~failed(con) /\ ~failed(lib)
                          THEN {PathOf(InLib, "Math")} ELSE {})
            IN  /\ Returned(r) = expected
                /\ Len(discovered[r]) = Cardinality(expected)

\* C23 (SpecFind) as amended: the walk never throws; a directory that cannot
\* be listed contributes nothing; a directory one of whose entries cannot be
\* inspected contributes what the walk found in it before that entry and
\* nothing from that entry on; a failure inside a directory takes away no
\* file outside it; and no file is returned twice.
C23_Discovery ==
    \A r \in Reqs : \A repo \in engines.repos :
        Walked(r) =>
            LET con == repo.entries[2]
                lib == con.entries[2]
                a == repo.listable /\ repo.entries[1].statable
                c == a /\ con.statable
                token == c /\ con.listable /\ con.entries[1].statable
                l == token /\ lib.statable
                math == l /\ lib.listable /\ lib.entries[1].statable
                vault == l /\ con.entries[3].statable
                b == c /\ repo.entries[3].statable /\ repo.entries[4].statable
                expected ==
                    (IF a THEN {PathOf(<<>>, "A")} ELSE {})
                    \cup (IF token THEN {PathOf(InContracts, "Token")} ELSE {})
                    \cup (IF math THEN {PathOf(InLib, "Math")} ELSE {})
                    \cup (IF vault THEN {PathOf(InContracts, "Vault")} ELSE {})
                    \cup (IF b THEN {PathOf(<<>>, "B")} ELSE {})
            IN  /\ pc[r] \in {"awaitBatch", "awaitCleanup"}
                /\ files[r] = Len(discovered[r])
                /\ Returned(r) = expected
                /\ Len(discovered[r]) = Cardinality(expected)

\* A walk that could not inspect README.md nor list contracts/lib.sol
\* returned A.sol, Token.sol and Vault.sol, in that order.
C23_Witness ==
    \E r \in Reqs :
        /\ engines.repos = {TreeRepo({"lib"}, {"README"})}
        /\ discovered[r] = <<PathOf(<<>>, "A"), PathOf(InContracts, "Token"),
                             PathOf(InContracts, "Vault")>>

\* C24 (SpecRace): while the harness run of a request is in flight (spawned
\* at index.js:90 after the request's own write, and reading the artifact at
\* some moment of its run), the file at the fixed path is the one that
\* request wrote.
C24_OwnArtifact ==
    \A r \in Reqs : pc[r] = "awaitExec" => testFile.writer = r

\* C25 (SpecManyFiles): at every moment of a scan at most BATCH_SIZE Static
\* Adapter calls are in flight, all of them for files of the current slice,
\* and none is in flight while the pause between two batches runs.
C25_BoundedInFlight ==
    \A r \in Reqs :
        /\ Cardinality(Analyzing(r)) <= BATCH_SIZE
        /\ Analyzing(r) \subseteq (idx[r] + 1)..(idx[r] + BATCH_SIZE)
        /\ pc[r] = "awaitPause" => Analyzing(r) = {}
        /\ Analyzing(r) # {} => pc[r] = "awaitBatch"

\* After one pause, the BATCH_SIZE calls of the second batch are all in
\* flight.
C25_Witness ==
    \E r \in Reqs :
        /\ calls[r]["pause"] = 1
        /\ idx[r] = BATCH_SIZE
        /\ Cardinality(Analyzing(r)) = BATCH_SIZE

\* C26 (SpecLive): when every external call eventually returns, every request
\* made is eventually answered; a request is answered once and never twice;
\* and a request its handler took up stays unanswered only while one of its
\* external calls has not returned (or its handler is about to resume on
\* calls that all returned).
C26_OneResponse ==
    \A r \in Reqs :
        /\ (pc[r] # "absent") ~> Answered(r)
        /\ [](responses[r] <= 1)
        /\ [](Answered(r) <=> responses[r] = 1)
        /\ [](Answered(r) => response[r].status \in {200, 400, 500})
        /\ []((Handled(r) /\ ~Answered(r)) => (InFlight(r) # {} \/ Resuming(r)))

\* A repository scan was answered after its clone, its reads, a pause and
\* its cleanup returned.
C26_Witness ==
    \E r \in Reqs :
        /\ Answered(r)
        /\ responses[r] = 1
        /\ calls[r]["pause"] = 1
        /\ InFlight(r) = {}

====
